---- MODULE Spec2Model ----
(***************************************************************************)
(* Tic-tac-toe: the board (board.rs), the minimax engine with alpha-beta   *)
(* pruning (ai.rs) and the game controller (game.rs).                      *)
(***************************************************************************)
EXTENDS Integers, Sequences, FiniteSets, TLC

VARIABLES
    cells,           \* Board.cells of the board under consideration (Game.board.cells)
    current_player,  \* Game.current_player
    call,            \* the last operation invoked, with its arguments
    ret              \* the value that operation returned

vars == <<cells, current_player, call, ret>>

\* board.rs:6 / game.rs:8
BOARD_SIZE == 3

\* Largest coordinate value passed to an operation taking (row, col): usize.
MaxCoord == 3

\* Longest candidate list handed to select_strategic_move.
MaxMoves == 3

\* i32::MIN and i32::MAX (ai.rs:23, ai.rs:30, ai.rs:93, ai.rs:112)
I32_MIN == -2147483647 - 1
I32_MAX == 2147483647

\* enum Cell (board.rs:10-14)
Cell == {"Empty", "X", "O"}

\* enum Player (game.rs:12-15)
Player == {"Human", "Ai"}

\* Option<T>: None is the empty tuple, Some(x) the one-element tuple.
None == <<>>
Some(x) == <<x>>

Index == 0 .. (BOARD_SIZE - 1)
Coord == 0 .. MaxCoord

\* Every value of [[Cell; 3]; 3].
AllBoards == [Index -> [Index -> Cell]]

\* Board::new (board.rs:34-38)
NewBoard == [r \in Index |-> [c \in Index |-> "Empty"]]

\* Board::get (board.rs:41-47)
get(b, row, col) ==
    IF row < BOARD_SIZE /\ col < BOARD_SIZE THEN Some(b[row][col]) ELSE None

\* Board::set without the test that the target cell is Empty.
set_Overwrite(b, row, col, cell) ==
    IF row < BOARD_SIZE /\ col < BOARD_SIZE
    THEN [cells |-> [b EXCEPT ![row][col] = cell], ret |-> TRUE]
    ELSE [cells |-> b, ret |-> FALSE]

\* Board::set (board.rs:51-58): the board afterwards and the returned bool.
set(b, row, col, cell) ==
    IF row < BOARD_SIZE /\ col < BOARD_SIZE /\ b[row][col] = "Empty"
    THEN [cells |-> [b EXCEPT ![row][col] = cell], ret |-> TRUE]
    ELSE [cells |-> b, ret |-> FALSE]

\* Board::is_empty (board.rs:61-63)
is_empty(b, row, col) == get(b, row, col) = Some("Empty")

\* Board::is_full (board.rs:66-75)
is_full(b) == \A row \in Index : \A col \in Index : b[row][col] # "Empty"

\* The order in which the nested loops `for row .. for col ..` visit the cells.
RowMajor ==
    <<  <<0, 0>>, <<0, 1>>, <<0, 2>>,
        <<1, 0>>, <<1, 1>>, <<1, 2>>,
        <<2, 0>>, <<2, 1>>, <<2, 2>>  >>

IsEmptyAt(b, p) == b[p[1]][p[2]] = "Empty"

\* Board::empty_positions (board.rs:78-88)
empty_positions(b) == SelectSeq(RowMajor, LAMBDA p : IsEmptyAt(b, p))

RowWins(b, row) ==
    b[row][0] # "Empty" /\ b[row][0] = b[row][1] /\ b[row][1] = b[row][2]

ColWins(b, col) ==
    b[0][col] # "Empty" /\ b[0][col] = b[1][col] /\ b[1][col] = b[2][col]

MainDiagWins(b) ==
    b[0][0] # "Empty" /\ b[0][0] = b[1][1] /\ b[1][1] = b[2][2]

\* The anti-diagonal test ending on the main diagonal's last cell.
AntiDiagWins_WrongCell(b) ==
    b[0][2] # "Empty" /\ b[0][2] = b[1][1] /\ b[1][1] = b[2][2]

AntiDiagWins(b) ==
    b[0][2] # "Empty" /\ b[0][2] = b[1][1] /\ b[1][1] = b[2][0]

\* Board::check_winner (board.rs:91-129): rows, columns, main diagonal,
\* anti-diagonal, returning at the first match.
check_winner(b) ==
    IF \E row \in Index : RowWins(b, row)
    THEN LET row == CHOOSE r \in Index :
                        RowWins(b, r) /\ \A q \in Index : q < r => ~RowWins(b, q)
         IN  Some(b[row][0])
    ELSE IF \E col \in Index : ColWins(b, col)
    THEN LET col == CHOOSE c \in Index :
                        ColWins(b, c) /\ \A q \in Index : q < c => ~ColWins(b, q)
         IN  Some(b[0][col])
    ELSE IF MainDiagWins(b) THEN Some(b[0][0])
    ELSE IF AntiDiagWins(b) THEN Some(b[0][2])
    ELSE None

\* is_game_over looking at the full board only, never at a winner.
is_game_over_FullOnly(b) == is_full(b)

\* Board::is_game_over (board.rs:132-134)
is_game_over(b) == check_winner(b) # None \/ is_full(b)

Max(a, b) == IF a >= b THEN a ELSE b
Min(a, b) == IF a <= b THEN a ELSE b

RECURSIVE minimax_alpha_beta(_, _, _, _, _)
RECURSIVE MaximizingLoop(_, _, _, _, _, _, _)
RECURSIVE MinimizingLoop(_, _, _, _, _, _, _)
RECURSIVE MaximizingLoop_ReversedCut(_, _, _, _, _, _, _)

\* The maximizing loop with the comparison of its cut-off reversed.
MaximizingLoop_ReversedCut(b, depth, positions, i, alpha, beta, max_score) ==
    IF i > Len(positions) THEN max_score
    ELSE LET board_copy == set(b, positions[i][1], positions[i][2], "O").cells
             score == minimax_alpha_beta(board_copy, depth + 1, FALSE, alpha, beta)
             new_max == Max(max_score, score)
             new_alpha == Max(alpha, score)
         IN  IF new_alpha <= beta THEN new_max
             ELSE MaximizingLoop_ReversedCut(b, depth, positions, i + 1,
                                             new_alpha, beta, new_max)

\* The `for` loop of the maximizing branch (ai.rs:95-107), from the i-th
\* empty position on, with the running alpha and max_score.
MaximizingLoop(b, depth, positions, i, alpha, beta, max_score) ==
    IF i > Len(positions) THEN max_score
    ELSE LET board_copy == set(b, positions[i][1], positions[i][2], "O").cells
             score == minimax_alpha_beta(board_copy, depth + 1, FALSE, alpha, beta)
             new_max == Max(max_score, score)
             new_alpha == Max(alpha, score)
         IN  IF beta <= new_alpha THEN new_max
             ELSE MaximizingLoop(b, depth, positions, i + 1, new_alpha, beta, new_max)

\* The `for` loop of the minimizing branch (ai.rs:114-126).
MinimizingLoop(b, depth, positions, i, alpha, beta, min_score) ==
    IF i > Len(positions) THEN min_score
    ELSE LET board_copy == set(b, positions[i][1], positions[i][2], "X").cells
             score == minimax_alpha_beta(board_copy, depth + 1, TRUE, alpha, beta)
             new_min == Min(min_score, score)
             new_beta == Min(beta, score)
         IN  IF new_beta <= alpha THEN new_min
             ELSE MinimizingLoop(b, depth, positions, i + 1, alpha, new_beta, new_min)

\* Terminal scores that ignore the depth.
TerminalScore_NoDepth(winner, depth) ==
    CASE winner = "O" -> 100
      [] winner = "X" -> -100
      [] OTHER -> 0

\* Terminal scores with the human's win scored like the AI's.
TerminalScore_SameSign(winner, depth) ==
    CASE winner = "O" -> 100 - depth
      [] winner = "X" -> 100 - depth
      [] OTHER -> 0

\* The score of a decided position (ai.rs:79-83).
TerminalScore(winner, depth) ==
    CASE winner = "O" -> 100 - depth
      [] winner = "X" -> depth - 100
      [] OTHER -> 0

\* AiAgent::minimax_alpha_beta (ai.rs:70-130)
minimax_alpha_beta(b, depth, is_maximizing, alpha, beta) ==
    LET w == check_winner(b)
    IN  IF w # None THEN TerminalScore(w[1], depth)
        ELSE IF is_full(b) THEN 0
        ELSE IF is_maximizing
        THEN MaximizingLoop(b, depth, empty_positions(b), 1, alpha, beta, I32_MIN)
        ELSE MinimizingLoop(b, depth, empty_positions(b), 1, alpha, beta, I32_MAX)

Contains(moves, m) == \E i \in 1 .. Len(moves) : moves[i] = m

\* The corners in the order select_strategic_move tries them (ai.rs:58).
corners == << <<0, 0>>, <<0, 2>>, <<2, 0>>, <<2, 2>> >>

\* select_strategic_move taking the first corner in list order.
select_strategic_move_ListOrder(moves) ==
    IF moves = <<>> THEN None
    ELSE IF Contains(moves, <<1, 1>>) THEN Some(<<1, 1>>)
    ELSE IF \E i \in 1 .. Len(moves) : Contains(corners, moves[i])
    THEN LET i == CHOOSE j \in 1 .. Len(moves) :
                      /\ Contains(corners, moves[j])
                      /\ \A q \in 1 .. Len(moves) : q < j => ~Contains(corners, moves[q])
         IN  Some(moves[i])
    ELSE Some(moves[1])

\* AiAgent::select_strategic_move (ai.rs:47-67)
select_strategic_move(moves) ==
    IF moves = <<>> THEN None
    ELSE IF Contains(moves, <<1, 1>>) THEN Some(<<1, 1>>)
    ELSE IF \E k \in 1 .. Len(corners) : Contains(moves, corners[k])
    THEN LET k == CHOOSE j \in 1 .. Len(corners) :
                      /\ Contains(moves, corners[j])
                      /\ \A q \in 1 .. Len(corners) : q < j => ~Contains(moves, corners[q])
         IN  Some(corners[k])
    ELSE Some(moves[1])

\* The candidate evaluated as if the AI were to move again.
CandidateScore_Maximizing(b, p) ==
    minimax_alpha_beta(set(b, p[1], p[2], "O").cells, 0, TRUE, I32_MIN, I32_MAX)

\* The score get_best_move gives the candidate (row, col) (ai.rs:27-30).
CandidateScore(b, p) ==
    minimax_alpha_beta(set(b, p[1], p[2], "O").cells, 0, FALSE, I32_MIN, I32_MAX)

RECURSIVE BestMovesLoop_KeepLast(_, _, _, _, _)
\* The loop of get_best_move with `>=` for `>`: an equal score replaces the list.
BestMovesLoop_KeepLast(b, positions, i, best_score, best_moves) ==
    IF i > Len(positions) THEN best_moves
    ELSE LET score == CandidateScore(b, positions[i])
         IN  IF score >= best_score
             THEN BestMovesLoop_KeepLast(b, positions, i + 1, score, <<positions[i]>>)
             ELSE BestMovesLoop_KeepLast(b, positions, i + 1, best_score, best_moves)

RECURSIVE BestMovesLoop(_, _, _, _, _)
\* The `for` loop of get_best_move (ai.rs:26-39), from the i-th empty position
\* on, with the running best_score and best_moves; yields the final best_moves.
BestMovesLoop(b, positions, i, best_score, best_moves) ==
    IF i > Len(positions) THEN best_moves
    ELSE LET score == CandidateScore(b, positions[i])
         IN  IF score > best_score
             THEN BestMovesLoop(b, positions, i + 1, score, <<positions[i]>>)
             ELSE IF score = best_score
             THEN BestMovesLoop(b, positions, i + 1, best_score,
                                Append(best_moves, positions[i]))
             ELSE BestMovesLoop(b, positions, i + 1, best_score, best_moves)

\* best_moves as get_best_move holds it at ai.rs:42.
best_moves_of(b) == BestMovesLoop(b, empty_positions(b), 1, I32_MIN, <<>>)

\* get_best_move giving up on a decided board.
get_best_move_NoneWhenOver(b) ==
    IF is_game_over(b) THEN None
    ELSE select_strategic_move(best_moves_of(b))

\* AiAgent::get_best_move (ai.rs:16-43)
get_best_move(b) ==
    IF empty_positions(b) = <<>> THEN None
    ELSE select_strategic_move(best_moves_of(b))

NoCall == [name |-> "none", row |-> 0, col |-> 0, cell |-> "Empty", moves |-> <<>>]

\* ---------------------------------------------------------------------------
\* AiAgent::get_best_move applied to an arbitrary board.

InitAi ==
    /\ cells \in AllBoards
    /\ current_player = "Human"
    /\ call = NoCall
    /\ ret = None

CallGetBestMove ==
    /\ call.name = "none"
    /\ call' = [NoCall EXCEPT !.name = "get_best_move"]
    /\ ret' = get_best_move(cells)
    /\ UNCHANGED <<cells, current_player>>

NextAi == CallGetBestMove

SpecAi == InitAi /\ [][NextAi]_vars

\* ---------------------------------------------------------------------------
\* AiAgent::get_best_move applied to a position in which the AI is to move:
\* the marks were placed in alternation (the human has as many marks as the
\* AI, or one more when the human began) and the game is not over.

AiToMoveBoards ==
    {b \in AllBoards :
        /\ Cardinality({p \in Index \X Index : b[p[1]][p[2]] = "X"})
            - Cardinality({p \in Index \X Index : b[p[1]][p[2]] = "O"}) \in {0, 1}
        /\ ~is_game_over(b)}

InitAiToMove ==
    /\ cells \in AiToMoveBoards
    /\ current_player = "Ai"
    /\ call = NoCall
    /\ ret = None

SpecAiToMove == InitAiToMove /\ [][NextAi]_vars

\* ---------------------------------------------------------------------------
\* The game controller (game.rs).

\* enum GameResult (game.rs:19-23)
GameResult == {"HumanWin", "AiWin", "Draw"}

\* Result<(), GameError> (game.rs:27-32): Ok(()) or the error returned.
GameError == {"InvalidPosition", "PositionOccupied", "GameOver", "WrongPlayer"}

\* make_human_move testing the turn before the end of the game.
make_human_move_TurnFirst(b, player, row, col) ==
    IF player # "Human"
    THEN [cells |-> b, current_player |-> player, ret |-> "WrongPlayer"]
    ELSE IF is_game_over(b)
    THEN [cells |-> b, current_player |-> player, ret |-> "GameOver"]
    ELSE IF row >= BOARD_SIZE \/ col >= BOARD_SIZE
    THEN [cells |-> b, current_player |-> player, ret |-> "InvalidPosition"]
    ELSE IF ~is_empty(b, row, col)
    THEN [cells |-> b, current_player |-> player, ret |-> "PositionOccupied"]
    ELSE LET after == set(b, row, col, "X").cells
         IN  [cells |-> after,
              current_player |-> IF ~is_game_over(after) THEN "Ai" ELSE player,
              ret |-> "Ok"]

\* make_human_move handing the turn over also when the move ended the game.
make_human_move_AlwaysSwitch(b, player, row, col) ==
    IF is_game_over(b)
    THEN [cells |-> b, current_player |-> player, ret |-> "GameOver"]
    ELSE IF player # "Human"
    THEN [cells |-> b, current_player |-> player, ret |-> "WrongPlayer"]
    ELSE IF row >= BOARD_SIZE \/ col >= BOARD_SIZE
    THEN [cells |-> b, current_player |-> player, ret |-> "InvalidPosition"]
    ELSE IF ~is_empty(b, row, col)
    THEN [cells |-> b, current_player |-> player, ret |-> "PositionOccupied"]
    ELSE [cells |-> set(b, row, col, "X").cells, current_player |-> "Ai", ret |-> "Ok"]

\* Game::make_human_move (game.rs:80-110): the game afterwards and the result.
make_human_move(b, player, row, col) ==
    IF is_game_over(b)
    THEN [cells |-> b, current_player |-> player, ret |-> "GameOver"]
    ELSE IF player # "Human"
    THEN [cells |-> b, current_player |-> player, ret |-> "WrongPlayer"]
    ELSE IF row >= BOARD_SIZE \/ col >= BOARD_SIZE
    THEN [cells |-> b, current_player |-> player, ret |-> "InvalidPosition"]
    ELSE IF ~is_empty(b, row, col)
    THEN [cells |-> b, current_player |-> player, ret |-> "PositionOccupied"]
    ELSE LET after == set(b, row, col, "X").cells
         IN  [cells |-> after,
              current_player |-> IF ~is_game_over(after) THEN "Ai" ELSE player,
              ret |-> "Ok"]

\* make_ai_move passing the coordinates of the best move to set in the wrong
\* order; the result of set is ignored, as in the code.
make_ai_move_Transposed(b, player) ==
    IF is_game_over(b)
    THEN [cells |-> b, current_player |-> player, ret |-> "GameOver"]
    ELSE IF player # "Ai"
    THEN [cells |-> b, current_player |-> player, ret |-> "WrongPlayer"]
    ELSE LET best == get_best_move(b)
         IN  IF best # None
             THEN LET after == set(b, best[1][2], best[1][1], "O").cells
                  IN  [cells |-> after,
                       current_player |-> IF ~is_game_over(after) THEN "Human" ELSE player,
                       ret |-> "Ok"]
             ELSE [cells |-> b, current_player |-> player, ret |-> "GameOver"]

\* make_ai_move placing the human's mark.
make_ai_move_PlacesX(b, player) ==
    IF is_game_over(b)
    THEN [cells |-> b, current_player |-> player, ret |-> "GameOver"]
    ELSE IF player # "Ai"
    THEN [cells |-> b, current_player |-> player, ret |-> "WrongPlayer"]
    ELSE LET best == get_best_move(b)
         IN  IF best # None
             THEN LET after == set(b, best[1][1], best[1][2], "X").cells
                  IN  [cells |-> after,
                       current_player |-> IF ~is_game_over(after) THEN "Human" ELSE player,
                       ret |-> "Ok"]
             ELSE [cells |-> b, current_player |-> player, ret |-> "GameOver"]

\* Game::make_ai_move (game.rs:113-138): the game afterwards and the result.
make_ai_move(b, player) ==
    IF is_game_over(b)
    THEN [cells |-> b, current_player |-> player, ret |-> "GameOver"]
    ELSE IF player # "Ai"
    THEN [cells |-> b, current_player |-> player, ret |-> "WrongPlayer"]
    ELSE LET best == get_best_move(b)
         IN  IF best # None
             THEN LET after == set(b, best[1][1], best[1][2], "O").cells
                  IN  [cells |-> after,
                       current_player |-> IF ~is_game_over(after) THEN "Human" ELSE player,
                       ret |-> "Ok"]
             ELSE [cells |-> b, current_player |-> player, ret |-> "GameOver"]

\* Game::check_game_over (game.rs:141-153)
check_game_over(b) ==
    LET winner == check_winner(b)
    IN  IF winner # None
        THEN CASE winner[1] = "X" -> Some("HumanWin")
               [] winner[1] = "O" -> Some("AiWin")
               [] OTHER -> None
        ELSE IF is_full(b) THEN Some("Draw")
        ELSE None

\* Game::new (game.rs:56-62)
Init ==
    /\ cells = NewBoard
    /\ current_player = "Human"
    /\ call = NoCall
    /\ ret = None

\* A call of make_human_move(row, col). The handler's result is computed once
\* and applied as a whole. `call` keeps the name of the operation only: the
\* properties about a step quantify over the coordinates that produce it.
MakeHumanMove(row, col) ==
    \E r \in {make_human_move(cells, current_player, row, col)} :
        /\ call' = [NoCall EXCEPT !.name = "make_human_move"]
        /\ cells' = r.cells
        /\ current_player' = r.current_player
        /\ ret' = r.ret

\* A call of make_ai_move().
MakeAiMove ==
    \E r \in {make_ai_move(cells, current_player)} :
        /\ call' = [NoCall EXCEPT !.name = "make_ai_move"]
        /\ cells' = r.cells
        /\ current_player' = r.current_player
        /\ ret' = r.ret

\* reset that clears the board and leaves the turn where it was.
Reset_KeepsPlayer ==
    /\ call' = [NoCall EXCEPT !.name = "reset"]
    /\ cells' = NewBoard
    /\ ret' = None
    /\ UNCHANGED current_player

\* Game::reset (game.rs:156-159)
Reset ==
    /\ call' = [NoCall EXCEPT !.name = "reset"]
    /\ cells' = NewBoard
    /\ current_player' = "Human"
    /\ ret' = None

Next ==
    \/ \E row \in Coord : \E col \in Coord : MakeHumanMove(row, col)
    \/ MakeAiMove
    \/ Reset

Spec == Init /\ [][Next]_vars

\* ---------------------------------------------------------------------------
\* Board::set applied once to an arbitrary board.

InitBoard ==
    /\ cells \in AllBoards
    /\ current_player = "Human"
    /\ call = NoCall
    /\ ret = None

CallSet(row, col, cell) ==
    /\ call.name = "none"
    /\ \E r \in {set(cells, row, col, cell)} :
        /\ call' = [NoCall EXCEPT !.name = "set", !.row = row, !.col = col, !.cell = cell]
        /\ cells' = r.cells
        /\ ret' = r.ret
    /\ UNCHANGED current_player

NextSet == \E row \in Coord : \E col \in Coord : \E cell \in Cell : CallSet(row, col, cell)

SpecSet == InitBoard /\ [][NextSet]_vars

\* ---------------------------------------------------------------------------
\* Board::check_winner applied to an arbitrary board.

CallCheckWinner ==
    /\ call.name = "none"
    /\ call' = [NoCall EXCEPT !.name = "check_winner"]
    /\ ret' = check_winner(cells)
    /\ UNCHANGED <<cells, current_player>>

NextWinner == CallCheckWinner

SpecWinner == InitBoard /\ [][NextWinner]_vars

\* ---------------------------------------------------------------------------
\* AiAgent::select_strategic_move applied to an arbitrary candidate list.

MoveLists == UNION {[1 .. n -> Coord \X Coord] : n \in 0 .. MaxMoves}

InitSel ==
    /\ cells = NewBoard
    /\ current_player = "Human"
    /\ \E moves \in MoveLists : call = [NoCall EXCEPT !.moves = moves]
    /\ ret = None

CallSelectStrategicMove ==
    /\ call.name = "none"
    /\ call' = [call EXCEPT !.name = "select_strategic_move"]
    /\ ret' = select_strategic_move(call.moves)
    /\ UNCHANGED <<cells, current_player>>

NextSel == CallSelectStrategicMove

SpecSel == InitSel /\ [][NextSel]_vars

\* ---------------------------------------------------------------------------
\* Vocabulary of the properties.

Positions == Index \X Index

At(b, p) == b[p[1]][p[2]]

CountCells(b, mark) == Cardinality({p \in Positions : At(b, p) = mark})

\* The eight lines: three rows, three columns, two diagonals.
Lines ==
    {{<<r, c>> : c \in Index} : r \in Index}
    \cup {{<<r, c>> : r \in Index} : c \in Index}
    \cup {{<<i, i>> : i \in Index}, {<<i, BOARD_SIZE - 1 - i>> : i \in Index}}

LineOf(b, mark) == \E L \in Lines : \A p \in L : At(b, p) = mark

\* Placing mark on the empty cell p would fill a line with mark.
Completes(b, p, mark) ==
    /\ At(b, p) = "Empty"
    /\ \E L \in Lines : p \in L /\ \A q \in L \ {p} : At(b, q) = mark

Place(b, p, mark) == [b EXCEPT ![p[1]][p[2]] = mark]

\* ---------------------------------------------------------------------------
\* Properties.

\* C1: from Game::new(), whatever legal moves the human plays against
\* make_ai_move, no reachable state has check_game_over() = Some(HumanWin).
C1_HumanNeverWins == check_game_over(cells) # Some("HumanWin")

\* A game played to the end: the ninth mark was placed and nobody won.
C1_Witness ==
    /\ check_game_over(cells) = Some("Draw")
    /\ CountCells(cells, "X") = 5
    /\ CountCells(cells, "O") = 4

\* C2: Board::set returns true exactly when the coordinate is in range and
\* the target cell is Empty; on false no cell changes; on true the target cell
\* holds the placed mark and every other cell is unchanged.
C2_SetContract ==
    [][call'.name = "set" =>
        LET row == call'.row
            col == call'.col
        IN  /\ ret' = (row \in Index /\ col \in Index /\ cells[row][col] = "Empty")
            /\ ~ret' => \A p \in Positions : At(cells', p) = At(cells, p)
            /\ ret' => /\ cells'[row][col] = call'.cell
                       /\ \A p \in Positions \ {<<row, col>>} : At(cells', p) = At(cells, p)
      ]_vars

\* A mark placed by a successful set, next to an occupied cell left alone.
C2_Witness ==
    /\ call.name = "set"
    /\ ret = TRUE
    /\ call.cell = "O"
    /\ cells[call.row][call.col] = "O"
    /\ CountCells(cells, "X") >= 1

\* C3: check_winner returns Some(mark) iff one of the 8 lines holds three
\* equal non-empty marks, and the mark returned is the mark of such a line.
C3_WinnerIffLine ==
    call.name = "check_winner" =>
        /\ ret # None <=> (LineOf(cells, "X") \/ LineOf(cells, "O"))
        /\ ret # None => (ret[1] \in {"X", "O"} /\ LineOf(cells, ret[1]))

\* A board whose only complete line is the anti-diagonal.
C3_Witness ==
    /\ call.name = "check_winner"
    /\ ret = Some("X")
    /\ \A L \in Lines :
        (\A p \in L : At(cells, p) = "X") <=> L = {<<0, 2>>, <<1, 1>>, <<2, 0>>}

\* C4: on a board without a winner where some empty cell completes a line of
\* three O, get_best_move returns a cell that completes an O line, also when
\* X has a completing cell of its own.
C4_TakesWin ==
    (/\ call.name = "get_best_move"
     /\ check_winner(cells) = None
     /\ \E p \in Positions : Completes(cells, p, "O"))
    => (ret # None /\ ret[1] \in Positions /\ Completes(cells, ret[1], "O"))

\* O at (0,0),(0,1), X at (1,0),(1,1): the engine completes row 0.
C4_Witness ==
    /\ call.name = "get_best_move"
    /\ cells = Place(Place(Place(Place(NewBoard, <<0, 0>>, "O"), <<0, 1>>, "O"),
                           <<1, 0>>, "X"), <<1, 1>>, "X")
    /\ Completes(cells, <<1, 2>>, "X")
    /\ ret = Some(<<0, 2>>)

\* C5: on a board without a winner where no empty cell completes an O line
\* and exactly one empty cell completes an X line, get_best_move returns
\* that cell.
C5_BlocksLoss ==
    (/\ call.name = "get_best_move"
     /\ check_winner(cells) = None
     /\ ~\E p \in Positions : Completes(cells, p, "O")
     /\ Cardinality({p \in Positions : Completes(cells, p, "X")}) = 1)
    => \A p \in Positions : Completes(cells, p, "X") => ret = Some(p)

\* X at (0,0),(0,1), all else empty: the engine blocks at (0,2).
C5_Witness ==
    /\ call.name = "get_best_move"
    /\ cells = Place(Place(NewBoard, <<0, 0>>, "X"), <<0, 1>>, "X")
    /\ ret = Some(<<0, 2>>)

\* C6: for every board, decided or not, get_best_move returns None iff the
\* board has no Empty cell, and a returned coordinate is in range and Empty
\* on the input board.
C6_NoneIffFull ==
    call.name = "get_best_move" =>
        /\ ret = None <=> (\A p \in Positions : At(cells, p) # "Empty")
        /\ ret # None => (ret[1] \in Positions /\ At(cells, ret[1]) = "Empty")

\* A move is returned on a board that already has a winner.
C6_Witness ==
    /\ call.name = "get_best_move"
    /\ check_winner(cells) = Some("X")
    /\ ret # None
    /\ At(cells, ret[1]) = "Empty"

\* The result make_human_move must report: the first failing precondition in
\* the order GameOver, WrongPlayer, InvalidPosition, PositionOccupied.
FirstFailureHuman(b, player, row, col) ==
    CASE LineOf(b, "X") \/ LineOf(b, "O") \/ CountCells(b, "Empty") = 0 -> "GameOver"
      [] OTHER ->
         CASE player # "Human" -> "WrongPlayer"
           [] OTHER ->
              CASE row >= 3 \/ col >= 3 -> "InvalidPosition"
                [] OTHER ->
                   CASE b[row][col] # "Empty" -> "PositionOccupied"
                     [] OTHER -> "Ok"

\* C7: make_human_move reports the first failing precondition in the order
\* GameOver, WrongPlayer, InvalidPosition, PositionOccupied; make_ai_move
\* reports GameOver before WrongPlayer; an error leaves the board and the
\* current player unchanged.
C7_ErrorOrder ==
    [][/\ call'.name = "make_human_move" =>
            /\ \A row \in Coord : \A col \in Coord :
                    MakeHumanMove(row, col)
                        => ret' = FirstFailureHuman(cells, current_player, row, col)
            /\ ret' # "Ok" => UNCHANGED <<cells, current_player>>
       /\ call'.name = "make_ai_move" =>
            /\ is_game_over(cells) => ret' = "GameOver"
            /\ (~is_game_over(cells) /\ current_player # "Ai") => ret' = "WrongPlayer"
            /\ ret' # "Ok" => UNCHANGED <<cells, current_player>>
      ]_vars

\* The human moved after the AI had won: the game is over and it is not the
\* human's turn, and GameOver is what is reported.
C7_Witness ==
    /\ call.name = "make_human_move"
    /\ ret = "GameOver"
    /\ current_player = "Ai"
    /\ check_game_over(cells) = Some("AiWin")

\* C8: a successful make_human_move places one X and hands the turn to the
\* AI iff the game is not over afterwards, a successful make_ai_move places
\* one O and hands the turn to the human iff the game is not over afterwards;
\* so in every state that is not game-over the human is to move when there
\* are as many X as O, and the AI when there is one X more.
C8_Alternation ==
    /\ [][/\ (call'.name = "make_human_move" /\ ret' = "Ok") =>
                /\ current_player = "Human"
                /\ \E p \in Positions : At(cells, p) = "Empty" /\ cells' = Place(cells, p, "X")
                /\ current_player' = "Ai" <=> ~is_game_over(cells')
          /\ (call'.name = "make_ai_move" /\ ret' = "Ok") =>
                /\ current_player = "Ai"
                /\ \E p \in Positions : At(cells, p) = "Empty" /\ cells' = Place(cells, p, "O")
                /\ current_player' = "Human" <=> ~is_game_over(cells')
         ]_vars
    /\ [](~is_game_over(cells) =>
            \/ current_player = "Human" /\ CountCells(cells, "X") = CountCells(cells, "O")
            \/ current_player = "Ai" /\ CountCells(cells, "X") = CountCells(cells, "O") + 1)

\* The AI answered the human's second move and the game goes on.
C8_Witness ==
    /\ call.name = "make_ai_move"
    /\ ret = "Ok"
    /\ ~is_game_over(cells)
    /\ current_player = "Human"
    /\ CountCells(cells, "X") = 2
    /\ CountCells(cells, "O") = 2

\* C9: select_strategic_move returns None iff the list is empty; otherwise
\* (1,1) if listed, else the first listed of (0,0), (0,2), (2,0), (2,2) in
\* that order wherever it stands in the list, else the first element.
C9_TieBreak ==
    call.name = "select_strategic_move" =>
        LET moves == call.moves
            Listed(m) == \E i \in DOMAIN moves : moves[i] = m
        IN  /\ ret = None <=> moves = <<>>
            /\ moves # <<>> =>
                ret = Some(CASE Listed(<<1, 1>>) -> <<1, 1>>
                             [] ~Listed(<<1, 1>>) /\ Listed(<<0, 0>>) -> <<0, 0>>
                             [] ~Listed(<<1, 1>>) /\ ~Listed(<<0, 0>>) /\ Listed(<<0, 2>>)
                                    -> <<0, 2>>
                             [] ~Listed(<<1, 1>>) /\ ~Listed(<<0, 0>>) /\ ~Listed(<<0, 2>>)
                                /\ Listed(<<2, 0>>) -> <<2, 0>>
                             [] ~Listed(<<1, 1>>) /\ ~Listed(<<0, 0>>) /\ ~Listed(<<0, 2>>)
                                /\ ~Listed(<<2, 0>>) /\ Listed(<<2, 2>>) -> <<2, 2>>
                             [] OTHER -> moves[1])

\* A corner that stands after an edge and after a later-ranked corner wins.
C9_Witness ==
    /\ call.name = "select_strategic_move"
    /\ call.moves = << <<0, 1>>, <<2, 2>>, <<0, 0>> >>
    /\ ret = Some(<<0, 0>>)

\* C10: on the empty board the nine opening cells all get the same top-level
\* minimax score and get_best_move returns the center (1,1).
C10_EmptyBoardCenter ==
    (call.name = "get_best_move" /\ cells = NewBoard) =>
        /\ ret = Some(<<1, 1>>)
        /\ Cardinality({CandidateScore(cells, p) : p \in Positions}) = 1

C10_Witness ==
    /\ call.name = "get_best_move"
    /\ cells = NewBoard
    /\ ret = Some(<<1, 1>>)
    /\ Len(best_moves_of(cells)) = 9

\* The four corner cells.
CornerCells == {<<0, 0>>, <<0, 2>>, <<2, 0>>, <<2, 2>>}

\* C11: on a board whose only mark is one X in a corner, get_best_move
\* returns the center (1,1).
C11_CornerAnsweredByCenter ==
    (/\ call.name = "get_best_move"
     /\ \E p \in CornerCells : cells = Place(NewBoard, p, "X"))
    => ret = Some(<<1, 1>>)

\* The human opened at (2,2) and the engine answered (1,1).
C11_Witness ==
    /\ call.name = "get_best_move"
    /\ cells = Place(NewBoard, <<2, 2>>, "X")
    /\ ret = Some(<<1, 1>>)

\* C12: from every reachable state of the game, reset() yields the initial
\* state, all nine cells Empty and the human to move, and make_human_move
\* then succeeds on every in-range cell.
C12_ResetRestoresInitial ==
    [][call'.name = "reset" =>
        /\ \A p \in Positions : At(cells', p) = "Empty"
        /\ current_player' = "Human"
        /\ \A row \in Index : \A col \in Index :
            LET r == make_human_move(cells', current_player', row, col)
            IN  r.ret = "Ok" /\ r.cells[row][col] = "X"
      ]_vars

\* reset was called and left the initial state of Game::new().
C12_Witness ==
    /\ call.name = "reset"
    /\ cells = NewBoard
    /\ current_player = "Human"

\* mark fills one of the eight lines of b.
HasLine(b, mark) ==
    \/ \E i \in Index : b[i][0] = mark /\ b[i][1] = mark /\ b[i][2] = mark
    \/ \E i \in Index : b[0][i] = mark /\ b[1][i] = mark /\ b[2][i] = mark
    \/ b[0][0] = mark /\ b[1][1] = mark /\ b[2][2] = mark
    \/ b[0][2] = mark /\ b[1][1] = mark /\ b[2][0] = mark

RECURSIVE PlainMinimax(_, _, _, _)
\* Depth-aware minimax without pruning over the empty cells `free` of b:
\* 100 - depth for an O win, depth - 100 for an X win, 0 for a draw, the
\* maximum over O's moves on O's plies, the minimum over X's moves on X's.
PlainMinimax(b, free, depth, o_to_move) ==
    IF HasLine(b, "O") THEN 100 - depth
    ELSE IF HasLine(b, "X") THEN depth - 100
    ELSE IF free = {} THEN 0
    ELSE LET values == {PlainMinimax(Place(b, p, IF o_to_move THEN "O" ELSE "X"),
                                     free \ {p}, depth + 1, ~o_to_move) : p \in free}
         IN  IF o_to_move
             THEN CHOOSE v \in values : \A w \in values : w <= v
             ELSE CHOOSE v \in values : \A w \in values : v <= w

\* Every candidate of b with its unpruned score.
PlainScores(b) ==
    LET free == {p \in Positions : At(b, p) = "Empty"}
    IN  {<<p, PlainMinimax(Place(b, p, "O"), free \ {p}, 0, FALSE)>> : p \in free}

\* C13: for every position in which the AI is to move, each top-level
\* candidate (O just placed, X to move) gets from
\* minimax_alpha_beta(board, 0, false, i32::MIN, i32::MAX) exactly the value
\* of the unpruned depth-aware minimax, and the best-scoring moves of
\* get_best_move are the best-scoring moves without pruning.
C13_PruningExact ==
    call.name = "get_best_move" =>
        LET plain == PlainScores(cells)
            best == best_moves_of(cells)
        IN  /\ {<<s[1], CandidateScore(cells, s[1])>> : s \in plain} = plain
            /\ {best[i] : i \in 1 .. Len(best)}
                = {s[1] : s \in {t \in plain : \A u \in plain : u[2] <= t[2]}}
            /\ ret # None /\ \E i \in 1 .. Len(best) : best[i] = ret[1]

\* After X (0,0), O (1,1), X (2,2) the search, pruning on the way, scores the
\* corner (0,2) below the four edges, as the unpruned search does.
C13_Witness ==
    /\ call.name = "get_best_move"
    /\ cells = Place(Place(Place(NewBoard, <<0, 0>>, "X"), <<1, 1>>, "O"), <<2, 2>>, "X")
    /\ CandidateScore(cells, <<0, 2>>) < CandidateScore(cells, <<0, 1>>)
    /\ CandidateScore(cells, <<0, 2>>)
        = PlainMinimax(Place(cells, <<0, 2>>, "O"),
                       {p \in Positions : At(cells, p) = "Empty"} \ {<<0, 2>>}, 0, FALSE)
    /\ ret = Some(<<0, 1>>)

\* The marks on the board.
CountMarks(b) == CountCells(b, "X") + CountCells(b, "O")

\* C14: every game ends within nine successful moves. A successful move adds
\* one mark and a failed one adds none, so the marks count the successful
\* moves since Game::new() or reset(); there are never more than nine, and
\* with nine of them check_game_over() is Some(result). In every state where
\* check_game_over() is None the player to move has a move that succeeds:
\* the human some in-range cell, the AI its call of make_ai_move.
C14_GameTerminates ==
    /\ [][(call'.name \in {"make_human_move", "make_ai_move"} /\ ret' = "Ok")
            => CountMarks(cells') = CountMarks(cells) + 1]_vars
    /\ [][(call'.name \in {"make_human_move", "make_ai_move"} /\ ret' # "Ok")
            => CountMarks(cells') = CountMarks(cells)]_vars
    /\ [][call'.name = "reset" => CountMarks(cells') = 0]_vars
    /\ [](/\ CountMarks(cells) <= BOARD_SIZE * BOARD_SIZE
          /\ CountMarks(cells) = BOARD_SIZE * BOARD_SIZE => check_game_over(cells) # None)
    /\ []((check_game_over(cells) = None /\ current_player = "Human")
            => \E row \in Index : \E col \in Index :
                    make_human_move(cells, current_player, row, col).ret = "Ok")
    /\ [][(/\ check_game_over(cells) = None
           /\ current_player = "Ai"
           /\ call'.name = "make_ai_move") => ret' = "Ok"]_vars

\* The AI completed a line with its third mark: the game ended after six
\* successful moves, before the board was full.
C14_Witness ==
    /\ call.name = "make_ai_move"
    /\ ret = "Ok"
    /\ check_game_over(cells) = Some("AiWin")
    /\ CountMarks(cells) = 6

\* C15: in every reachable state of the game at most one player holds a
\* complete line, so check_winner reports the same mark whatever the order
\* in which it tries rows, columns and diagonals.
C15_SingleWinner ==
    /\ ~(LineOf(cells, "X") /\ LineOf(cells, "O"))
    /\ \A mark \in {"X", "O"} : LineOf(cells, mark) => check_winner(cells) = Some(mark)

\* A finished game with a line of three O, and X without a line.
C15_Witness ==
    /\ LineOf(cells, "O")
    /\ ~LineOf(cells, "X")
    /\ check_winner(cells) = Some("O")
    /\ is_game_over(cells)

\* C16: a call of make_ai_move in a state that is not game-over and where
\* the turn is the AI's returns Ok and turns exactly one Empty cell into O,
\* every other cell staying as it was; get_best_move yields a move there, so
\* the fallback Err(GameOver) is not taken, and board.set on that move
\* returns true.
C16_AiMoveFrame ==
    [][(/\ call'.name = "make_ai_move"
        /\ ~is_game_over(cells)
        /\ current_player = "Ai")
       => LET best == get_best_move(cells)
          IN  /\ ret' = "Ok"
              /\ best # None
              /\ set(cells, best[1][1], best[1][2], "O").ret
              /\ Cardinality({p \in Positions : At(cells', p) # At(cells, p)}) = 1
              /\ \A p \in Positions :
                    At(cells', p) # At(cells, p)
                        => At(cells, p) = "Empty" /\ At(cells', p) = "O"]_vars

\* The AI has just answered the human's second move: two X and two O.
C16_Witness ==
    /\ call.name = "make_ai_move"
    /\ ret = "Ok"
    /\ current_player = "Human"
    /\ CountCells(cells, "X") = 2
    /\ CountCells(cells, "O") = 2

====
